---- MODULE Spec2Model ----
(***************************************************************************)
(* A model of the jenga middleware crate: the Service contract and the     *)
(* RateLimit, Retry, Timeout and Restart middlewares.  Each middleware is  *)
(* a state machine over its own variables and has its own specification    *)
(* (SpecRateLimit, SpecRetry, SpecTimeout, SpecRestart); the variables of  *)
(* the other middlewares stay at their initial values.  SpecRetryConcurrent *)
(* is Retry with several callers, SpecRestartFair is Restart without       *)
(* abandoned requests and with fair scheduling.                            *)
(***************************************************************************)
EXTENDS Integers, FiniteSets, Sequences, TLC

(***************************************************************************)
(* Bounds of the model.                                                    *)
(***************************************************************************)
\* Number of tasks calling one RateLimit instance concurrently.
NumCallers == 3
\* LIMIT ranges over 0..MaxLimit.
MaxLimit == 2
\* Width of the modelled usize counter: arithmetic on it is modulo 2^UsizeBits.
UsizeBits == 3
\* Inner services fail with one of the errors 1..NumErrors.
NumErrors == 2
\* RETRY_COUNT ranges over 0..MaxRetry.
MaxRetry == 3
\* The retried test service fails its first k invocations, k in 0..MaxFailures.
MaxFailures == 4
\* Number of tasks calling one Retry instance concurrently.
NumRetryCallers == 2
\* With concurrent callers RETRY_COUNT ranges over 0..MaxConcurrentRetry and
\* the test service's limit over 0..MaxConcurrentFailures.
MaxConcurrentRetry == 1
MaxConcurrentFailures == 2
\* Durations (the timeout, and the time the timed service takes) range over 0..MaxTime.
MaxTime == 3
\* Number of tasks calling one Restart instance concurrently.
NumRestartCallers == 2
\* The generator produces at most MaxInstances instances (identifiers 1..MaxInstances).
MaxInstances == 3

Callers == 1..NumCallers
RestartCallers == 1..NumRestartCallers
RetryCallers == 1..NumRetryCallers
\* The message task c gives to its Retry requests: every task has its own.
RequestMsg(c) == c
Errors == 1..NumErrors
UsizeMod == 2 ^ UsizeBits

(***************************************************************************)
(* Result values.  A value of Result<T, E> is a record: tag names the      *)
(* variant, a and b are its payload (0 where the variant has none).        *)
(***************************************************************************)
Res(t, x, y) == [tag |-> t, a |-> x, b |-> y]
NoResult == Res("None", 0, 0)
Ok(v) == Res("Ok", v, 0)
Err(e) == Res("Err", e, 0)
InnerResults == {Ok(0)} \cup {Err(e) : e \in Errors}

ServiceError(e) == Res("ServiceError", e, 0)
RateLimited == Res("RateLimited", 0, 0)
TimeoutError == Res("TimeoutError", 0, 0)
RestartingFailed(e2, e1) == Res("RestartingFailed", e2, e1)

VARIABLES
    \* ---- RateLimit (rate_limit.rs) ----
    LIMIT,      \* the const generic LIMIT of the instance
    current,    \* RateLimit.current, the AtomicUsize in-flight counter
    pc,         \* pc[c]: where caller c is inside RateLimit::request
    prev,       \* prev[c]: the value fetch_update last observed for caller c (0 outside it)
    resp,       \* resp[c]: the local `resp`, the inner call's result (while it is live)
    result,     \* result[c]: what the request returned to caller c
    abandoned   \* number of admitted requests dropped while the inner call was pending

rlVars == <<LIMIT, current, pc, prev, resp, result, abandoned>>

VARIABLES
    \* ---- Retry (retry.rs) ----
    RETRY_COUNT,    \* the const generic RETRY_COUNT of the instance
    retry_wait,     \* whether the crate is built with feature "retry_wait"
    counter,        \* TestRetryService.counter, the inner service's state
    limit,          \* TestRetryService.limit
    retryPc,        \* retryPc[c]: where caller c is inside Retry::request
    retryMsg,       \* retryMsg[c]: the argument msg of caller c's request (0: none)
    retries_left,   \* retries_left[c]: the local retries_left of caller c's request
    retryResult,    \* retryResult[c]: what the request returned to caller c
    lastSent,       \* history: the message the latest inner invocation of c's request received (0: none)
    attempts,       \* history: the results of the inner invocations of c's request
    sleeps,         \* history: the number of delays c's request has slept
    toFail          \* history: limit - counter when the latest request started

retryVars == <<RETRY_COUNT, retry_wait, counter, limit, retryPc, retryMsg,
               retries_left, retryResult, lastSent, attempts, sleeps, toFail>>

VARIABLES
    \* ---- Timeout (timeout.rs) ----
    timeout_duration,   \* Timeout.timeout_duration
    timeoutPc,          \* where the caller is inside Timeout::request
    timeoutMsg,         \* msg: the time TestTimeoutService sleeps before it answers
    innerOutcome,       \* the result the inner call produces if it runs to its end
    elapsed,            \* time since the request started
    innerCall,          \* the inner future: "none", "pending", "completed", "dropped"
    timeoutResult       \* what the request returned

timeoutVars == <<timeout_duration, timeoutPc, timeoutMsg, innerOutcome, elapsed,
                 innerCall, timeoutResult>>

VARIABLES
    \* ---- Restart (restart.rs) ----
    restartState,   \* "none", "constructing" (inside Restart::new), "failed", "ready"
    g_r,            \* Restart.g_r, the generator message
    genCounter,     \* TestGeneratorService.counter
    service,        \* the instance inside Restart.service (NoInstance before construction)
    newResult,      \* what Restart::new returned
    newGenCalls,    \* history: generator invocations made by the running/last Restart::new
    genMsg,         \* history: the message of the latest generator invocation
    lockHolder,     \* the caller holding the MutexGuard of Restart.service, 0 if none
    lockQueue,      \* the callers waiting in service.lock().await, in arrival order
    restartPc,      \* restartPc[c]: where caller c is inside Restart::request
                    \* ("abandoned": c dropped its last request before it returned)
    restartMsg,     \* restartMsg[c]: msg
    e1,             \* e1[c]: the error of the first attempt
    restartResult,  \* restartResult[c]: what the request returned
    reqGenCalls,    \* history: generator invocations made by c's request
    reqAttempts     \* history: the number of calls c's request has made on the instance

restartVars == <<restartState, g_r, genCounter, service, newResult, newGenCalls,
                 genMsg, lockHolder, lockQueue, restartPc, restartMsg, e1,
                 restartResult, reqGenCalls, reqAttempts>>

vars == <<rlVars, retryVars, timeoutVars, restartVars>>

(***************************************************************************)
(* RateLimit                                                               *)
(***************************************************************************)
\* RateLimit::new: the counter starts at 0; no caller is inside request.
RLFresh ==
    /\ current = 0
    /\ pc = [c \in Callers |-> "idle"]
    /\ prev = [c \in Callers |-> 0]
    /\ resp = [c \in Callers |-> NoResult]
    /\ result = [c \in Callers |-> NoResult]
    /\ abandoned = 0
RLInit == LIMIT \in 0..MaxLimit /\ RLFresh
\* The RateLimit instance in the specifications of the other middlewares.
RLUnused == LIMIT = 0 /\ RLFresh

\* The closure given to fetch_update; -1 stands for None.
AdmitUpdate_OffByOne(v) == IF v > LIMIT THEN -1 ELSE (v + 1) % UsizeMod
AdmitUpdate(v) == IF v >= LIMIT THEN -1 ELSE (v + 1) % UsizeMod

\* map_err(|e| RateLimitError::ServiceError(e))
RLMapErr(r) == IF r.tag = "Err" THEN ServiceError(r.a) ELSE r

\* request is called (or called again after an earlier call returned);
\* fetch_update starts with a load of the counter.
RLLoad(c) ==
    /\ pc[c] \in {"idle", "done"}
    /\ prev' = [prev EXCEPT ![c] = current]
    /\ pc' = [pc EXCEPT ![c] = "cas"]
    /\ resp' = [resp EXCEPT ![c] = NoResult]
    /\ result' = [result EXCEPT ![c] = NoResult]
    /\ UNCHANGED <<LIMIT, current, abandoned>>

\* fetch_update's closure returned None for the observed value:
\* fetch_update returns Err and request returns RateLimited.
RLReject_Releases(c) ==
    /\ pc[c] = "cas"
    /\ AdmitUpdate(prev[c]) = -1
    /\ current' = (current - 1) % UsizeMod
    /\ pc' = [pc EXCEPT ![c] = "done"]
    /\ result' = [result EXCEPT ![c] = RateLimited]
    /\ prev' = [prev EXCEPT ![c] = 0]
    /\ UNCHANGED <<LIMIT, resp, abandoned>>
RLReject(c) ==
    /\ pc[c] = "cas"
    /\ AdmitUpdate(prev[c]) = -1
    /\ pc' = [pc EXCEPT ![c] = "done"]
    /\ result' = [result EXCEPT ![c] = RateLimited]
    /\ prev' = [prev EXCEPT ![c] = 0]
    /\ UNCHANGED <<LIMIT, current, resp, abandoned>>

\* The compare-exchange of fetch_update succeeds: the counter still holds
\* the observed value and is replaced by the closure's value; the inner
\* service is invoked and the request suspends on it.
RLAdmit_Store(c) ==
    /\ pc[c] = "cas"
    /\ AdmitUpdate(prev[c]) # -1
    /\ current' = AdmitUpdate(prev[c])
    /\ pc' = [pc EXCEPT ![c] = "inner"]
    /\ prev' = [prev EXCEPT ![c] = 0]
    /\ UNCHANGED <<LIMIT, resp, result, abandoned>>
RLAdmit(c) ==
    /\ pc[c] = "cas"
    /\ AdmitUpdate(prev[c]) # -1
    /\ current = prev[c]
    /\ current' = AdmitUpdate(prev[c])
    /\ pc' = [pc EXCEPT ![c] = "inner"]
    /\ prev' = [prev EXCEPT ![c] = 0]
    /\ UNCHANGED <<LIMIT, resp, result, abandoned>>

\* The compare-exchange fails because another caller changed the counter:
\* fetch_update takes the value it found and runs the closure again.
\* (A spurious failure of the weak compare-exchange finds the value it
\* already has; that step changes nothing and is a stuttering step.)
RLCasRetry(c) ==
    /\ pc[c] = "cas"
    /\ AdmitUpdate(prev[c]) # -1
    /\ current # prev[c]
    /\ prev' = [prev EXCEPT ![c] = current]
    /\ UNCHANGED <<LIMIT, current, pc, resp, result, abandoned>>

\* The inner service's request completes with a success or an error.
RLInnerReturn(c) ==
    /\ pc[c] = "inner"
    /\ \E r \in InnerResults : resp' = [resp EXCEPT ![c] = r]
    /\ pc' = [pc EXCEPT ![c] = "release"]
    /\ UNCHANGED <<LIMIT, current, prev, result, abandoned>>

\* fetch_sub(1) on the counter (wrapping, as on AtomicUsize), then the
\* request returns resp with the inner error mapped.
RLRelease_NoDecrementOnError(c) ==
    /\ pc[c] = "release"
    /\ current' = IF resp[c].tag = "Err" THEN current ELSE (current - 1) % UsizeMod
    /\ result' = [result EXCEPT ![c] = RLMapErr(resp[c])]
    /\ pc' = [pc EXCEPT ![c] = "done"]
    /\ resp' = [resp EXCEPT ![c] = NoResult]
    /\ UNCHANGED <<LIMIT, prev, abandoned>>
RLRelease(c) ==
    /\ pc[c] = "release"
    /\ current' = (current - 1) % UsizeMod
    /\ result' = [result EXCEPT ![c] = RLMapErr(resp[c])]
    /\ pc' = [pc EXCEPT ![c] = "done"]
    /\ resp' = [resp EXCEPT ![c] = NoResult]
    /\ UNCHANGED <<LIMIT, prev, abandoned>>

\* The caller drops the request future at its only suspension point, the
\* await of the inner call (its task is cancelled, or an enclosing timeout
\* fires).  The rest of the function body, fetch_sub included, never runs:
\* the body holds no guard whose Drop would run it.
RLAbandon(c) ==
    /\ pc[c] = "inner"
    /\ pc' = [pc EXCEPT ![c] = "idle"]
    /\ abandoned' = abandoned + 1
    /\ UNCHANGED <<LIMIT, current, prev, resp, result>>

(***************************************************************************)
(* Retry                                                                   *)
(***************************************************************************)
\* Retry::instant / Retry::with_wait around a fresh TestRetryService: no
\* request is running.
RetryFresh ==
    /\ counter = 0
    /\ retryPc = [c \in RetryCallers |-> "idle"]
    /\ retryMsg = [c \in RetryCallers |-> 0]
    /\ retries_left = [c \in RetryCallers |-> 0]
    /\ retryResult = [c \in RetryCallers |-> NoResult]
    /\ lastSent = [c \in RetryCallers |-> 0]
    /\ attempts = [c \in RetryCallers |-> <<>>]
    /\ sleeps = [c \in RetryCallers |-> 0]
    /\ toFail = 0
RetryInit ==
    /\ RETRY_COUNT \in 0..MaxRetry
    /\ retry_wait \in BOOLEAN
    /\ limit \in 0..MaxFailures
    /\ RetryFresh
\* The Retry instance in the specifications of the other middlewares.
RetryUnused == RETRY_COUNT = 0 /\ retry_wait = FALSE /\ limit = 0 /\ RetryFresh

\* TestRetryService::request: the counter after the call and the result.
\* FakeError::Error carries the number of the failure that produced it, so
\* that the errors of different attempts can be told apart.
ServiceFails == counter < limit
ServiceCounterAfter == IF ServiceFails THEN counter + 1 ELSE 0
ServiceResult == IF ServiceFails THEN Err(counter + 1) ELSE Ok(0)

\* msg.clone(): R is Clone, the clone is a value equal to msg.
Clone(msg) == msg

\* `if retries_left == 0`
RetriesExhausted_OneEarly(left) == left <= 1
RetriesExhausted(left) == left = 0

\* request(msg) is called: retries_left = RETRY_COUNT, and the loop is
\* entered.
RetryStart_SleepsFirst(c) ==
    /\ retryPc[c] \in {"idle", "done"}
    /\ retryMsg' = [retryMsg EXCEPT ![c] = RequestMsg(c)]
    /\ retryPc' = [retryPc EXCEPT ![c] = IF retry_wait THEN "sleep" ELSE "attempt"]
    /\ retries_left' = [retries_left EXCEPT ![c] = RETRY_COUNT]
    /\ retryResult' = [retryResult EXCEPT ![c] = NoResult]
    /\ lastSent' = [lastSent EXCEPT ![c] = 0]
    /\ attempts' = [attempts EXCEPT ![c] = <<>>]
    /\ sleeps' = [sleeps EXCEPT ![c] = 0]
    /\ toFail' = limit - counter
    /\ UNCHANGED <<RETRY_COUNT, retry_wait, counter, limit>>
RetryStart(c) ==
    /\ retryPc[c] \in {"idle", "done"}
    /\ retryMsg' = [retryMsg EXCEPT ![c] = RequestMsg(c)]
    /\ retryPc' = [retryPc EXCEPT ![c] = "attempt"]
    /\ retries_left' = [retries_left EXCEPT ![c] = RETRY_COUNT]
    /\ retryResult' = [retryResult EXCEPT ![c] = NoResult]
    /\ lastSent' = [lastSent EXCEPT ![c] = 0]
    /\ attempts' = [attempts EXCEPT ![c] = <<>>]
    /\ sleeps' = [sleeps EXCEPT ![c] = 0]
    /\ toFail' = limit - counter
    /\ UNCHANGED <<RETRY_COUNT, retry_wait, counter, limit>>

\* self.inner.request(msg.clone()).await returns Ok(ok): return Ok(ok).
RetryOk(c) ==
    /\ retryPc[c] = "attempt"
    /\ ~ServiceFails
    /\ counter' = ServiceCounterAfter
    /\ attempts' = [attempts EXCEPT ![c] = Append(@, ServiceResult)]
    /\ retryResult' = [retryResult EXCEPT ![c] = ServiceResult]
    /\ retryPc' = [retryPc EXCEPT ![c] = "done"]
    /\ lastSent' = [lastSent EXCEPT ![c] = Clone(retryMsg[c])]
    /\ UNCHANGED <<RETRY_COUNT, retry_wait, limit, retryMsg, retries_left,
                   sleeps, toFail>>

\* The inner request returns Err(err) and no retry is left: return Err(err).
RetryGiveUp_FirstError(c) ==
    /\ retryPc[c] = "attempt"
    /\ ServiceFails
    /\ RetriesExhausted(retries_left[c])
    /\ counter' = ServiceCounterAfter
    /\ attempts' = [attempts EXCEPT ![c] = Append(@, ServiceResult)]
    /\ retryResult' = [retryResult EXCEPT ![c] = attempts'[c][1]]
    /\ retryPc' = [retryPc EXCEPT ![c] = "done"]
    /\ lastSent' = [lastSent EXCEPT ![c] = Clone(retryMsg[c])]
    /\ UNCHANGED <<RETRY_COUNT, retry_wait, limit, retryMsg, retries_left,
                   sleeps, toFail>>
RetryGiveUp(c) ==
    /\ retryPc[c] = "attempt"
    /\ ServiceFails
    /\ RetriesExhausted(retries_left[c])
    /\ counter' = ServiceCounterAfter
    /\ attempts' = [attempts EXCEPT ![c] = Append(@, ServiceResult)]
    /\ retryResult' = [retryResult EXCEPT ![c] = ServiceResult]
    /\ retryPc' = [retryPc EXCEPT ![c] = "done"]
    /\ lastSent' = [lastSent EXCEPT ![c] = Clone(retryMsg[c])]
    /\ UNCHANGED <<RETRY_COUNT, retry_wait, limit, retryMsg, retries_left,
                   sleeps, toFail>>

\* The inner request returns Err(err) and retries are left: retries_left
\* is decremented; with feature retry_wait the request sleeps, and then the
\* loop continues.
RetryAgain_SharedBudget(c) ==
    /\ retryPc[c] = "attempt"
    /\ ServiceFails
    /\ ~RetriesExhausted(retries_left[c])
    /\ counter' = ServiceCounterAfter
    /\ attempts' = [attempts EXCEPT ![c] = Append(@, ServiceResult)]
    /\ retries_left' = [d \in RetryCallers |->
                            IF retries_left[d] > 0 THEN retries_left[d] - 1 ELSE 0]
    /\ retryPc' = [retryPc EXCEPT ![c] = IF retry_wait THEN "sleep" ELSE "attempt"]
    /\ lastSent' = [lastSent EXCEPT ![c] = Clone(retryMsg[c])]
    /\ UNCHANGED <<RETRY_COUNT, retry_wait, limit, retryMsg, retryResult,
                   sleeps, toFail>>
RetryAgain(c) ==
    /\ retryPc[c] = "attempt"
    /\ ServiceFails
    /\ ~RetriesExhausted(retries_left[c])
    /\ counter' = ServiceCounterAfter
    /\ attempts' = [attempts EXCEPT ![c] = Append(@, ServiceResult)]
    /\ retries_left' = [retries_left EXCEPT ![c] = @ - 1]
    /\ retryPc' = [retryPc EXCEPT ![c] = IF retry_wait THEN "sleep" ELSE "attempt"]
    /\ lastSent' = [lastSent EXCEPT ![c] = Clone(retryMsg[c])]
    /\ UNCHANGED <<RETRY_COUNT, retry_wait, limit, retryMsg, retryResult,
                   sleeps, toFail>>

\* sleep(self.duration).await completes; continue.
RetrySleepDone(c) ==
    /\ retryPc[c] = "sleep"
    /\ sleeps' = [sleeps EXCEPT ![c] = @ + 1]
    /\ retryPc' = [retryPc EXCEPT ![c] = "attempt"]
    /\ UNCHANGED <<RETRY_COUNT, retry_wait, counter, limit, retryMsg,
                   retries_left, retryResult, lastSent, attempts, toFail>>

(***************************************************************************)
(* Timeout                                                                 *)
(***************************************************************************)
\* Timeout::new: no request is running.
TimeoutFresh ==
    /\ timeoutPc = "idle"
    /\ timeoutMsg = 0
    /\ innerOutcome = NoResult
    /\ elapsed = 0
    /\ innerCall = "none"
    /\ timeoutResult = NoResult
TimeoutInit == timeout_duration \in 0..MaxTime /\ TimeoutFresh
\* The Timeout instance in the specifications of the other middlewares.
TimeoutUnused == timeout_duration = 0 /\ TimeoutFresh

\* TestTimeoutService::request(msg) sleeps msg and then answers Ok(msg * 2)
\* or, for the messages it rejects, an error.
InnerOutcomes(msg) == {Ok(msg * 2)} \cup {Err(e) : e \in Errors}
InnerCompleted(t) == t >= timeoutMsg

\* The timer of tokio's timeout(self.timeout_duration, ..) has fired.
TimerElapsed_Late(t) == t > timeout_duration
TimerElapsed(t) == t >= timeout_duration

\* The arms of the match on the timeout's outcome: Ok(res) is the inner
\* result, NoResult stands for Err(Elapsed).
TimeoutMatch_TimeoutOnError(raced) ==
    IF raced.tag = "Ok" THEN raced ELSE TimeoutError
TimeoutMatch(raced) ==
    CASE raced.tag = "Ok" -> raced
      [] raced.tag = "Err" -> ServiceError(raced.a)
      [] OTHER -> TimeoutError

\* request(msg) is called: the inner request future and the timer start.
TimeoutStart ==
    /\ timeoutPc \in {"idle", "done"}
    /\ \E msg \in 0..MaxTime :
        /\ timeoutMsg' = msg
        /\ \E r \in InnerOutcomes(msg) : innerOutcome' = r
    /\ timeoutPc' = "racing"
    /\ elapsed' = 0
    /\ innerCall' = "pending"
    /\ timeoutResult' = NoResult
    /\ UNCHANGED timeout_duration

\* Time passes while neither the inner call nor the timer is ready.  The
\* waiting task is woken and polled at the instant the first of them is
\* ready, as the crate's timeout_test takes for granted.
TimeoutTick ==
    /\ timeoutPc = "racing"
    /\ ~InnerCompleted(elapsed)
    /\ ~TimerElapsed(elapsed)
    /\ elapsed < MaxTime
    /\ elapsed' = elapsed + 1
    /\ UNCHANGED <<timeout_duration, timeoutPc, timeoutMsg, innerOutcome,
                   innerCall, timeoutResult>>

\* timeout polls the inner future first: it is ready, timeout yields
\* Ok(res) and request returns res with an inner error mapped.
TimeoutInnerFirst ==
    /\ timeoutPc = "racing"
    /\ InnerCompleted(elapsed)
    /\ innerCall' = "completed"
    /\ timeoutResult' = TimeoutMatch(innerOutcome)
    /\ timeoutPc' = "done"
    /\ UNCHANGED <<timeout_duration, timeoutMsg, innerOutcome, elapsed>>

\* The inner future is pending and the timer has fired: timeout yields
\* Err(Elapsed) and drops the inner future; request returns TimeoutError.
TimeoutTimerFirst ==
    /\ timeoutPc = "racing"
    /\ ~InnerCompleted(elapsed)
    /\ TimerElapsed(elapsed)
    /\ innerCall' = "dropped"
    /\ timeoutResult' = TimeoutMatch(NoResult)
    /\ timeoutPc' = "done"
    /\ UNCHANGED <<timeout_duration, timeoutMsg, innerOutcome, elapsed>>

(***************************************************************************)
(* Restart                                                                 *)
(***************************************************************************)
\* A TestRestartService { id, value }; NoInstance where none exists.
Instance(i, v) == [id |-> i, value |-> v]
NoInstance == Instance(0, 0)
\* The generator messages and request messages of test_restart_service.
GenMsgs == {1, 2}
ReqMsgs == {2, 3}

\* Before Restart::new is called.
RestartFresh ==
    /\ restartState = "none"
    /\ g_r = 0
    /\ genCounter = 0
    /\ service = NoInstance
    /\ newResult = NoResult
    /\ newGenCalls = 0
    /\ genMsg = 0
    /\ lockHolder = 0
    /\ lockQueue = <<>>
    /\ restartPc = [c \in RestartCallers |-> "idle"]
    /\ restartMsg = [c \in RestartCallers |-> 0]
    /\ e1 = [c \in RestartCallers |-> 0]
    /\ restartResult = [c \in RestartCallers |-> NoResult]
    /\ reqGenCalls = [c \in RestartCallers |-> 0]
    /\ reqAttempts = [c \in RestartCallers |-> 0]
RestartInit == RestartFresh
\* The Restart instance in the specifications of the other middlewares.
RestartUnused == RestartFresh

\* TestRestartService::request: Ok(()) when msg is the instance's value and
\* an error otherwise; as an instance in service may also have broken down,
\* an error is possible for every msg.
InstanceAnswers(inst, msg) ==
    (IF msg = inst.value THEN {Ok(0)} ELSE {}) \cup {Err(e) : e \in Errors}

\* TestGeneratorService::request: the generator can answer Ok only for
\* msg > 1; as a generator may be unable to produce an instance at times,
\* an error is possible for every msg.
GeneratorCanSucceed(msg) == msg > 1 /\ genCounter < MaxInstances
\* counter.fetch_add(1); TestRestartService { id: counter.load(), value: msg }
Generated(msg) == Instance(genCounter + 1, msg)

\* Restart::new(generator, generator_msg) is called and invokes
\* generator.request(generator_msg.clone()).
RestartNew ==
    /\ restartState \in {"none", "failed"}
    /\ \E m \in GenMsgs : g_r' = m /\ genMsg' = m
    /\ restartState' = "constructing"
    /\ newResult' = NoResult
    /\ newGenCalls' = 1
    /\ UNCHANGED <<genCounter, service, lockHolder, lockQueue, restartPc,
                   restartMsg, e1, restartResult, reqGenCalls, reqAttempts>>

\* The generator answers Ok(instance): new returns Ok(Self) with the
\* instance inside the mutex.
RestartNewOk ==
    /\ restartState = "constructing"
    /\ GeneratorCanSucceed(g_r)
    /\ genCounter' = genCounter + 1
    /\ service' = Generated(g_r)
    /\ newResult' = Ok(0)
    /\ restartState' = "ready"
    /\ UNCHANGED <<g_r, newGenCalls, genMsg, lockHolder, lockQueue, restartPc,
                   restartMsg, e1, restartResult, reqGenCalls, reqAttempts>>

\* The generator answers Err(e): the `?` makes new return Err(e).
RestartNewErr_TriesAgain ==
    /\ restartState = "constructing"
    /\ newGenCalls' = newGenCalls + 1
    /\ newGenCalls < MaxInstances
    /\ UNCHANGED <<restartState, g_r, genCounter, service, newResult, genMsg,
                   lockHolder, lockQueue, restartPc, restartMsg, e1,
                   restartResult, reqGenCalls, reqAttempts>>
RestartNewErr ==
    /\ restartState = "constructing"
    /\ \E e \in Errors : newResult' = Err(e)
    /\ restartState' = "failed"
    /\ UNCHANGED <<g_r, genCounter, service, newGenCalls, genMsg, lockHolder,
                   lockQueue, restartPc, restartMsg, e1, restartResult,
                   reqGenCalls, reqAttempts>>

\* request(msg) is called on the constructed Restart and waits in
\* self.service.lock().await.
RestartRequest_JumpsQueue(c) ==
    /\ restartState = "ready"
    /\ restartPc[c] \in {"idle", "done", "abandoned"}
    /\ \E m \in ReqMsgs : restartMsg' = [restartMsg EXCEPT ![c] = m]
    /\ restartPc' = [restartPc EXCEPT ![c] = "waiting"]
    /\ lockQueue' = <<c>> \o lockQueue
    /\ e1' = [e1 EXCEPT ![c] = 0]
    /\ restartResult' = [restartResult EXCEPT ![c] = NoResult]
    /\ reqGenCalls' = [reqGenCalls EXCEPT ![c] = 0]
    /\ reqAttempts' = [reqAttempts EXCEPT ![c] = 0]
    /\ UNCHANGED <<restartState, g_r, genCounter, service, newResult,
                   newGenCalls, genMsg, lockHolder>>
RestartRequest(c) ==
    /\ restartState = "ready"
    /\ restartPc[c] \in {"idle", "done", "abandoned"}
    /\ \E m \in ReqMsgs : restartMsg' = [restartMsg EXCEPT ![c] = m]
    /\ restartPc' = [restartPc EXCEPT ![c] = "waiting"]
    /\ lockQueue' = Append(lockQueue, c)
    /\ e1' = [e1 EXCEPT ![c] = 0]
    /\ restartResult' = [restartResult EXCEPT ![c] = NoResult]
    /\ reqGenCalls' = [reqGenCalls EXCEPT ![c] = 0]
    /\ reqAttempts' = [reqAttempts EXCEPT ![c] = 0]
    /\ UNCHANGED <<restartState, g_r, genCounter, service, newResult,
                   newGenCalls, genMsg, lockHolder>>

\* The mutex is free and c is the first waiter: c gets the guard and calls
\* lock.request(msg.clone()) on the stored instance.
RestartAcquire_NoExclusion(c) ==
    /\ restartPc[c] = "waiting"
    /\ lockQueue # <<>>
    /\ Head(lockQueue) = c
    /\ lockHolder' = c
    /\ lockQueue' = Tail(lockQueue)
    /\ restartPc' = [restartPc EXCEPT ![c] = "first"]
    /\ reqAttempts' = [reqAttempts EXCEPT ![c] = @ + 1]
    /\ UNCHANGED <<restartState, g_r, genCounter, service, newResult,
                   newGenCalls, genMsg, restartMsg, e1, restartResult,
                   reqGenCalls>>
RestartAcquire(c) ==
    /\ restartPc[c] = "waiting"
    /\ lockHolder = 0
    /\ lockQueue # <<>>
    /\ Head(lockQueue) = c
    /\ lockHolder' = c
    /\ lockQueue' = Tail(lockQueue)
    /\ restartPc' = [restartPc EXCEPT ![c] = "first"]
    /\ reqAttempts' = [reqAttempts EXCEPT ![c] = @ + 1]
    /\ UNCHANGED <<restartState, g_r, genCounter, service, newResult,
                   newGenCalls, genMsg, restartMsg, e1, restartResult,
                   reqGenCalls>>

\* The first attempt answers Ok: request returns it; the guard and msg are
\* dropped.
RestartFirstOk_Regenerates(c) ==
    /\ restartPc[c] = "first"
    /\ Ok(0) \in InstanceAnswers(service, restartMsg[c])
    /\ GeneratorCanSucceed(g_r)
    /\ genCounter' = genCounter + 1
    /\ service' = Generated(g_r)
    /\ restartResult' = [restartResult EXCEPT ![c] = Ok(0)]
    /\ restartPc' = [restartPc EXCEPT ![c] = "done"]
    /\ lockHolder' = 0
    /\ restartMsg' = [restartMsg EXCEPT ![c] = 0]
    /\ UNCHANGED <<restartState, g_r, newResult, newGenCalls, genMsg,
                   lockQueue, e1, reqGenCalls, reqAttempts>>
RestartFirstOk(c) ==
    /\ restartPc[c] = "first"
    /\ Ok(0) \in InstanceAnswers(service, restartMsg[c])
    /\ restartResult' = [restartResult EXCEPT ![c] = Ok(0)]
    /\ restartPc' = [restartPc EXCEPT ![c] = "done"]
    /\ lockHolder' = 0
    /\ restartMsg' = [restartMsg EXCEPT ![c] = 0]
    /\ UNCHANGED <<restartState, g_r, genCounter, service, newResult,
                   newGenCalls, genMsg, lockQueue, e1,
                   reqGenCalls, reqAttempts>>

\* The first attempt answers Err(e1): the generator is invoked with g_r.
RestartFirstErr_ReplacesEarly(c) ==
    /\ restartPc[c] = "first"
    /\ \E e \in Errors :
        /\ Err(e) \in InstanceAnswers(service, restartMsg[c])
        /\ e1' = [e1 EXCEPT ![c] = e]
    /\ restartPc' = [restartPc EXCEPT ![c] = "generating"]
    /\ reqGenCalls' = [reqGenCalls EXCEPT ![c] = @ + 1]
    /\ genMsg' = g_r
    /\ service' = Instance(service.id + 1, g_r)
    /\ UNCHANGED <<restartState, g_r, genCounter, newResult,
                   newGenCalls, lockHolder, lockQueue, restartMsg,
                   restartResult, reqAttempts>>
RestartFirstErr(c) ==
    /\ restartPc[c] = "first"
    /\ \E e \in Errors :
        /\ Err(e) \in InstanceAnswers(service, restartMsg[c])
        /\ e1' = [e1 EXCEPT ![c] = e]
    /\ restartPc' = [restartPc EXCEPT ![c] = "generating"]
    /\ reqGenCalls' = [reqGenCalls EXCEPT ![c] = @ + 1]
    /\ genMsg' = g_r
    /\ UNCHANGED <<restartState, g_r, genCounter, service, newResult,
                   newGenCalls, lockHolder, lockQueue, restartMsg,
                   restartResult, reqAttempts>>

\* The generator answers Err(e2): request returns RestartingFailed(e2, e1);
\* the guard is dropped.
RestartGenErr_SwapsErrors(c) ==
    /\ restartPc[c] = "generating"
    /\ \E e2 \in Errors :
        restartResult' = [restartResult EXCEPT ![c] = RestartingFailed(e1[c], e2)]
    /\ restartPc' = [restartPc EXCEPT ![c] = "done"]
    /\ lockHolder' = 0
    /\ restartMsg' = [restartMsg EXCEPT ![c] = 0]
    /\ UNCHANGED <<restartState, g_r, genCounter, service, newResult,
                   newGenCalls, genMsg, lockQueue, e1,
                   reqGenCalls, reqAttempts>>
RestartGenErr(c) ==
    /\ restartPc[c] = "generating"
    /\ \E e2 \in Errors :
        restartResult' = [restartResult EXCEPT ![c] = RestartingFailed(e2, e1[c])]
    /\ restartPc' = [restartPc EXCEPT ![c] = "done"]
    /\ lockHolder' = 0
    /\ restartMsg' = [restartMsg EXCEPT ![c] = 0]
    /\ UNCHANGED <<restartState, g_r, genCounter, service, newResult,
                   newGenCalls, genMsg, lockQueue, e1,
                   reqGenCalls, reqAttempts>>

\* The generator answers Ok(new_service): it replaces the stored instance
\* and lock.request(msg) is called on it.
RestartGenOk_KeepsOld(c) ==
    /\ restartPc[c] = "generating"
    /\ GeneratorCanSucceed(g_r)
    /\ genCounter' = genCounter + 1
    /\ restartPc' = [restartPc EXCEPT ![c] = "retry"]
    /\ reqAttempts' = [reqAttempts EXCEPT ![c] = @ + 1]
    /\ UNCHANGED <<restartState, g_r, service, newResult, newGenCalls, genMsg,
                   lockHolder, lockQueue, restartMsg, e1, restartResult,
                   reqGenCalls>>
RestartGenOk(c) ==
    /\ restartPc[c] = "generating"
    /\ GeneratorCanSucceed(g_r)
    /\ genCounter' = genCounter + 1
    /\ service' = Generated(g_r)
    /\ restartPc' = [restartPc EXCEPT ![c] = "retry"]
    /\ reqAttempts' = [reqAttempts EXCEPT ![c] = @ + 1]
    /\ UNCHANGED <<restartState, g_r, newResult, newGenCalls, genMsg,
                   lockHolder, lockQueue, restartMsg, e1, restartResult,
                   reqGenCalls>>

\* The second attempt answers: Ok is returned as it is, Err(e) as
\* ServiceError(e); the guard is dropped.
RestartRetryReturn_RegeneratesOnError(c) ==
    /\ restartPc[c] = "retry"
    /\ \E r \in InstanceAnswers(service, restartMsg[c]) :
        IF r.tag = "Err" /\ reqGenCalls[c] < MaxInstances
        THEN /\ restartPc' = [restartPc EXCEPT ![c] = "generating"]
             /\ reqGenCalls' = [reqGenCalls EXCEPT ![c] = @ + 1]
             /\ UNCHANGED <<restartResult, lockHolder>>
        ELSE /\ restartResult' = [restartResult EXCEPT ![c] =
                                    IF r.tag = "Err" THEN ServiceError(r.a) ELSE r]
             /\ restartPc' = [restartPc EXCEPT ![c] = "done"]
             /\ lockHolder' = 0
             /\ UNCHANGED reqGenCalls
    /\ UNCHANGED <<restartState, g_r, genCounter, service, newResult,
                   newGenCalls, genMsg, lockQueue, restartMsg, e1,
                   reqAttempts>>
RestartRetryReturn(c) ==
    /\ restartPc[c] = "retry"
    /\ \E r \in InstanceAnswers(service, restartMsg[c]) :
        restartResult' = [restartResult EXCEPT ![c] =
                            IF r.tag = "Err" THEN ServiceError(r.a) ELSE r]
    /\ restartPc' = [restartPc EXCEPT ![c] = "done"]
    /\ lockHolder' = 0
    /\ restartMsg' = [restartMsg EXCEPT ![c] = 0]
    /\ UNCHANGED <<restartState, g_r, genCounter, service, newResult,
                   newGenCalls, genMsg, lockQueue, e1,
                   reqGenCalls, reqAttempts>>

\* The caller drops the request future at one of its awaits: a waiter
\* leaves the queue of the mutex, the holder's guard is dropped; the
\* locals of the call are gone.
RestartAbandon_KeepsGuard(c) ==
    /\ restartPc[c] \in {"waiting", "first", "generating", "retry"}
    /\ restartPc' = [restartPc EXCEPT ![c] = "abandoned"]
    /\ lockQueue' = SelectSeq(lockQueue, LAMBDA w : w # c)
    /\ restartMsg' = [restartMsg EXCEPT ![c] = 0]
    /\ e1' = [e1 EXCEPT ![c] = 0]
    /\ UNCHANGED <<restartState, g_r, genCounter, service, newResult,
                   newGenCalls, genMsg, lockHolder, restartResult,
                   reqGenCalls, reqAttempts>>
RestartAbandon(c) ==
    /\ restartPc[c] \in {"waiting", "first", "generating", "retry"}
    /\ restartPc' = [restartPc EXCEPT ![c] = "abandoned"]
    /\ lockQueue' = SelectSeq(lockQueue, LAMBDA w : w # c)
    /\ lockHolder' = IF lockHolder = c THEN 0 ELSE lockHolder
    /\ restartMsg' = [restartMsg EXCEPT ![c] = 0]
    /\ e1' = [e1 EXCEPT ![c] = 0]
    /\ UNCHANGED <<restartState, g_r, genCounter, service, newResult,
                   newGenCalls, genMsg, restartResult, reqGenCalls,
                   reqAttempts>>

(***************************************************************************)
(* Specifications                                                          *)
(***************************************************************************)
RateLimitInit == RLInit /\ RetryUnused /\ TimeoutUnused /\ RestartUnused
RateLimitNext ==
    \E c \in Callers :
        \/ RLLoad(c) /\ UNCHANGED <<retryVars, timeoutVars, restartVars>>
        \/ RLReject(c) /\ UNCHANGED <<retryVars, timeoutVars, restartVars>>
        \/ RLAdmit(c) /\ UNCHANGED <<retryVars, timeoutVars, restartVars>>
        \/ RLCasRetry(c) /\ UNCHANGED <<retryVars, timeoutVars, restartVars>>
        \/ RLInnerReturn(c) /\ UNCHANGED <<retryVars, timeoutVars, restartVars>>
        \/ RLRelease(c) /\ UNCHANGED <<retryVars, timeoutVars, restartVars>>
        \/ RLAbandon(c) /\ UNCHANGED <<retryVars, timeoutVars, restartVars>>
SpecRateLimit == RateLimitInit /\ [][RateLimitNext]_vars

RetryOnlyInit == RetryInit /\ RLUnused /\ TimeoutUnused /\ RestartUnused
\* One task calls request, again and again, one request at a time.
SoloCallers == {1}
RetryNext ==
    \E c \in SoloCallers :
        \/ RetryStart(c) /\ UNCHANGED <<rlVars, timeoutVars, restartVars>>
        \/ RetryOk(c) /\ UNCHANGED <<rlVars, timeoutVars, restartVars>>
        \/ RetryGiveUp(c) /\ UNCHANGED <<rlVars, timeoutVars, restartVars>>
        \/ RetryAgain(c) /\ UNCHANGED <<rlVars, timeoutVars, restartVars>>
        \/ RetrySleepDone(c) /\ UNCHANGED <<rlVars, timeoutVars, restartVars>>
SpecRetry == RetryOnlyInit /\ [][RetryNext]_vars

\* Several tasks call request on the same Retry instance concurrently.
RetryConcurrentInit ==
    /\ RetryOnlyInit
    /\ RETRY_COUNT <= MaxConcurrentRetry
    /\ limit <= MaxConcurrentFailures
RetryConcurrentNext ==
    \E c \in RetryCallers :
        \/ RetryStart(c) /\ UNCHANGED <<rlVars, timeoutVars, restartVars>>
        \/ RetryOk(c) /\ UNCHANGED <<rlVars, timeoutVars, restartVars>>
        \/ RetryGiveUp(c) /\ UNCHANGED <<rlVars, timeoutVars, restartVars>>
        \/ RetryAgain(c) /\ UNCHANGED <<rlVars, timeoutVars, restartVars>>
        \/ RetrySleepDone(c) /\ UNCHANGED <<rlVars, timeoutVars, restartVars>>
SpecRetryConcurrent == RetryConcurrentInit /\ [][RetryConcurrentNext]_vars

TimeoutOnlyInit == TimeoutInit /\ RLUnused /\ RetryUnused /\ RestartUnused
TimeoutNext ==
    \/ TimeoutStart /\ UNCHANGED <<rlVars, retryVars, restartVars>>
    \/ TimeoutTick /\ UNCHANGED <<rlVars, retryVars, restartVars>>
    \/ TimeoutInnerFirst /\ UNCHANGED <<rlVars, retryVars, restartVars>>
    \/ TimeoutTimerFirst /\ UNCHANGED <<rlVars, retryVars, restartVars>>
SpecTimeout == TimeoutOnlyInit /\ [][TimeoutNext]_vars

RestartOnlyInit == RestartInit /\ RLUnused /\ RetryUnused /\ TimeoutUnused
RestartNext ==
    \/ RestartNew /\ UNCHANGED <<rlVars, retryVars, timeoutVars>>
    \/ RestartNewOk /\ UNCHANGED <<rlVars, retryVars, timeoutVars>>
    \/ RestartNewErr /\ UNCHANGED <<rlVars, retryVars, timeoutVars>>
    \/ \E c \in RestartCallers :
        \/ RestartRequest(c) /\ UNCHANGED <<rlVars, retryVars, timeoutVars>>
        \/ RestartAcquire(c) /\ UNCHANGED <<rlVars, retryVars, timeoutVars>>
        \/ RestartFirstOk(c) /\ UNCHANGED <<rlVars, retryVars, timeoutVars>>
        \/ RestartFirstErr(c) /\ UNCHANGED <<rlVars, retryVars, timeoutVars>>
        \/ RestartGenErr(c) /\ UNCHANGED <<rlVars, retryVars, timeoutVars>>
        \/ RestartGenOk(c) /\ UNCHANGED <<rlVars, retryVars, timeoutVars>>
        \/ RestartRetryReturn(c) /\ UNCHANGED <<rlVars, retryVars, timeoutVars>>
        \/ RestartAbandon(c) /\ UNCHANGED <<rlVars, retryVars, timeoutVars>>
SpecRestart == RestartOnlyInit /\ [][RestartNext]_vars

\* Restart when no caller drops its request future, every inner call and
\* every generator invocation returns, and the executor and the tokio Mutex
\* are fair: a step of a request that stays possible is eventually taken.
RestartNoAbandonNext ==
    \/ RestartNew /\ UNCHANGED <<rlVars, retryVars, timeoutVars>>
    \/ RestartNewOk /\ UNCHANGED <<rlVars, retryVars, timeoutVars>>
    \/ RestartNewErr /\ UNCHANGED <<rlVars, retryVars, timeoutVars>>
    \/ \E c \in RestartCallers :
        \/ RestartRequest(c) /\ UNCHANGED <<rlVars, retryVars, timeoutVars>>
        \/ RestartAcquire(c) /\ UNCHANGED <<rlVars, retryVars, timeoutVars>>
        \/ RestartFirstOk(c) /\ UNCHANGED <<rlVars, retryVars, timeoutVars>>
        \/ RestartFirstErr(c) /\ UNCHANGED <<rlVars, retryVars, timeoutVars>>
        \/ RestartGenErr(c) /\ UNCHANGED <<rlVars, retryVars, timeoutVars>>
        \/ RestartGenOk(c) /\ UNCHANGED <<rlVars, retryVars, timeoutVars>>
        \/ RestartRetryReturn(c) /\ UNCHANGED <<rlVars, retryVars, timeoutVars>>
\* A step of caller c's request past one of its awaits.
RestartProgress(c) ==
    \/ RestartAcquire(c)
    \/ RestartFirstOk(c)
    \/ RestartFirstErr(c)
    \/ RestartGenErr(c)
    \/ RestartGenOk(c)
    \/ RestartRetryReturn(c)
RestartFairness ==
    \A c \in RestartCallers :
        WF_vars(RestartProgress(c) /\ UNCHANGED <<rlVars, retryVars, timeoutVars>>)
SpecRestartFair ==
    RestartOnlyInit /\ [][RestartNoAbandonNext]_vars /\ RestartFairness

\* The callers inside the sequence first attempt, generator invocation,
\* replacement, second attempt of Restart::request.
InSequence == {c \in RestartCallers : restartPc[c] \in {"first", "generating", "retry"}}

\* The callers that were admitted and have not yet run fetch_sub.
Holders == {c \in Callers : pc[c] \in {"inner", "release"}}
\* The callers whose call is inside the inner service.
InInner == {c \in Callers : pc[c] = "inner"}

(***************************************************************************)
(* Claims about RateLimit                                                  *)
(***************************************************************************)
\* C1: the number of calls admitted and inside the inner service never
\* exceeds LIMIT, under every interleaving; with LIMIT = 0 no call is ever
\* admitted (none is inside the inner service and none returns anything but
\* RateLimited).
C1_AtMostLimitAdmitted ==
    /\ Cardinality(InInner) <= LIMIT
    /\ Cardinality(Holders) <= LIMIT
    /\ LIMIT = 0 =>
        \A c \in Callers : pc[c] \in {"idle", "cas", "done"}
                           /\ result[c] \in {NoResult, RateLimited}
C1_Witness ==
    /\ LIMIT = 2
    /\ Cardinality(InInner) = 2
    /\ \E c \in Callers : pc[c] = "done" /\ result[c] = RateLimited

\* C2: 0 <= counter <= LIMIT in every reachable state (the wrapping usize
\* never wraps below 0), and the counter grows only by 1 and only in the
\* step that admits a caller.
C2_CounterInRange ==
    /\ [](current \in 0..LIMIT)
    /\ [][current' > current =>
            /\ current' = current + 1
            /\ \E c \in Callers : pc[c] = "cas" /\ pc'[c] = "inner"]_vars
C2_Witness ==
    /\ LIMIT = 2
    /\ current = 2
    /\ \E c \in Callers : pc[c] = "cas" /\ prev[c] = 1

\* C3: a request abandoned while its inner call is pending still releases
\* its increment, so when no admitted call is in progress any more the
\* counter is 0 and no slot stays occupied.
C3_AbandonReleasesSlot == Holders = {} => current = 0

\* C4: every admitted call whose inner call returned has decremented the
\* counter exactly once, after a success and after an inner error alike: the
\* counter always equals the number of admitted calls that have not yet
\* decremented plus the number of abandoned ones; so once every started call
\* has returned it is 0, and the next call observes 0 and is admitted.
C4_DecrementExactlyOnce ==
    /\ [](current = Cardinality(Holders) + abandoned)
    /\ []((Holders = {} /\ abandoned = 0) => current = 0)
    /\ [][\A c \in Callers :
            (Holders = {} /\ abandoned = 0 /\ LIMIT > 0
             /\ pc[c] = "done" /\ pc'[c] = "cas")
            => prev'[c] = 0 /\ AdmitUpdate(prev'[c]) = 1]_vars
C4_Witness ==
    /\ abandoned = 0
    /\ current = 0
    /\ \A c \in Callers : pc[c] = "done"
    /\ \E c \in Callers : result[c] = Ok(0)
    /\ \E c \in Callers : result[c].tag = "ServiceError"

\* The step in which caller c's fetch_update ends.
C5_Decides(c) == pc[c] = "cas" /\ pc'[c] # "cas"
C6_AttemptCount ==
    \A c \in SoloCallers :
        /\ Len(attempts[c]) <= RETRY_COUNT + 1
        /\ \A i \in 1..Len(attempts[c]) :
                attempts[c][i].tag = "Ok" => i = Len(attempts[c])
        /\ retryPc[c] = "done" =>
            IF toFail <= RETRY_COUNT
            THEN retryResult[c] = Ok(0) /\ Len(attempts[c]) = toFail + 1
            ELSE retryResult[c].tag = "Err" /\ Len(attempts[c]) = RETRY_COUNT + 1
C6_Witness ==
    \E c \in SoloCallers :
        /\ retryPc[c] = "done"
        /\ RETRY_COUNT = 3
        /\ \/ toFail = 3 /\ retryResult[c] = Ok(0) /\ Len(attempts[c]) = 4
           \/ toFail = 4 /\ retryResult[c].tag = "Err" /\ Len(attempts[c]) = 4

\* C7: when all N+1 attempts of a request fail, the error returned is the
\* error of the last attempt, unchanged, and not the error of an earlier
\* attempt.
C7_LastErrorReturned ==
    \A c \in SoloCallers :
        (retryPc[c] = "done" /\ retryResult[c].tag # "Ok") =>
            /\ Len(attempts[c]) = RETRY_COUNT + 1
            /\ \A i \in 1..Len(attempts[c]) : attempts[c][i].tag = "Err"
            /\ retryResult[c] = attempts[c][RETRY_COUNT + 1]
            /\ \A i \in 1..RETRY_COUNT : attempts[c][i] # retryResult[c]
C7_Witness ==
    \E c \in SoloCallers :
        /\ retryPc[c] = "done"
        /\ RETRY_COUNT = 2
        /\ Len(attempts[c]) = 3
        /\ retryResult[c] = Err(3)
        /\ attempts[c][1] = Err(1)

(***************************************************************************)
(* Claims about Timeout                                                    *)
(***************************************************************************)
\* C8: when the inner call completes before the timer fires (it takes less
\* time than the timeout), the request returns the inner outcome, a success
\* unchanged and an inner error e as ServiceError(e), and never
\* TimeoutError.
C8_InnerFirstForwarded ==
    (timeoutPc = "done" /\ (timeoutMsg < timeout_duration \/ innerCall = "completed")) =>
        /\ innerCall = "completed"
        /\ timeoutResult # TimeoutError
        /\ innerOutcome.tag = "Ok" => timeoutResult = innerOutcome
        /\ innerOutcome.tag = "Err" => timeoutResult = ServiceError(innerOutcome.a)
C8_Witness ==
    /\ timeoutPc = "done"
    /\ timeoutMsg = 1
    /\ timeout_duration = 2
    /\ innerOutcome = Err(2)
    /\ timeoutResult = ServiceError(2)

\* C9: when the timer fires before the inner call completes (the timeout is
\* shorter than the time the inner call takes), the request returns
\* TimeoutError, whether the inner call would have succeeded or failed; it
\* returns at the moment the timer fires, with the inner call dropped
\* uncompleted.
C9_TimerFirstTimeoutError ==
    (timeoutPc = "done" /\ (timeout_duration < timeoutMsg \/ innerCall = "dropped")) =>
        /\ timeoutResult = TimeoutError
        /\ innerCall = "dropped"
        /\ elapsed = timeout_duration
        /\ elapsed < timeoutMsg
C9_Witness ==
    /\ timeoutPc = "done"
    /\ timeout_duration = 2
    /\ timeoutMsg = 3
    /\ innerOutcome = Err(1)
    /\ timeoutResult = TimeoutError

(***************************************************************************)
(* Claims about Restart                                                    *)
(***************************************************************************)
\* C10: Restart::new invokes the generator exactly once, with the given
\* generator message.  If that invocation fails, new returns the
\* generator's error, no instance is stored and no Restart exists (the
\* generator is not invoked again, no request can run); if it succeeds, the
\* stored instance is the one the generator returned.
C10_ConstructionOnce ==
    /\ [](restartState \in {"constructing", "failed", "ready"} =>
            newGenCalls = 1)
    /\ [](restartState = "constructing" => genMsg = g_r)
    /\ [](restartState = "failed" =>
            /\ newResult.tag = "Err"
            /\ service = NoInstance
            /\ \A c \in RestartCallers : restartPc[c] = "idle")
    /\ [](g_r = 1 => restartState # "ready")
    /\ [][(restartState = "constructing" /\ restartState' # "constructing") =>
            \/ /\ restartState' = "failed"
               /\ newResult'.tag = "Err"
               /\ genCounter' = genCounter
               /\ service' = NoInstance
            \/ /\ restartState' = "ready"
               /\ newResult' = Ok(0)
               /\ genCounter' = genCounter + 1
               /\ service' = Instance(genCounter + 1, g_r)]_vars
C10_Witness ==
    /\ restartState = "failed"
    /\ g_r = 1
    /\ genMsg = 1
    /\ newResult = Err(1)
    /\ newGenCalls = 1
    /\ genCounter = 0

\* The step in which caller c's request returns after its first attempt.
C11_FirstAttemptReturns(c) == restartPc[c] = "first" /\ restartPc'[c] = "done"
\* C11: a request whose first attempt on the current instance succeeds
\* returns that response, does not invoke the generator and leaves the
\* stored instance unchanged, so no request that succeeds at once replaces
\* the instance; a request that returned after one attempt has invoked the
\* generator zero times.
C11_SuccessKeepsInstance ==
    /\ [][\A c \in RestartCallers :
            C11_FirstAttemptReturns(c) =>
                /\ restartResult'[c] = Ok(0)
                /\ service' = service
                /\ genCounter' = genCounter
                /\ genMsg' = genMsg
                /\ reqGenCalls'[c] = 0
                /\ reqAttempts'[c] = 1]_vars
    /\ [](\A c \in RestartCallers :
            (restartPc[c] = "done" /\ reqAttempts[c] = 1 /\ restartResult[c] = Ok(0))
            => reqGenCalls[c] = 0)
C11_Witness ==
    /\ restartState = "ready"
    /\ genCounter = 1
    /\ service = Instance(1, 2)
    /\ \A c \in RestartCallers :
        /\ restartPc[c] = "done"
        /\ restartResult[c] = Ok(0)
        /\ reqAttempts[c] = 1
        /\ reqGenCalls[c] = 0

\* The step in which caller c's request returns after its second attempt.
C12_SecondAttemptReturns(c) == restartPc[c] = "retry" /\ restartPc'[c] = "done"
\* C12: one request invokes the generator exactly once when its first
\* attempt fails and not at all otherwise, and calls the inner service at
\* most twice; when the attempt on the regenerated instance fails too, the
\* request returns ServiceError and the generator is not invoked again.
C12_OneRegeneration ==
    /\ [](\A c \in RestartCallers :
            /\ reqGenCalls[c] <= 1
            /\ reqAttempts[c] <= 2
            /\ restartPc[c] = "waiting" => reqGenCalls[c] = 0 /\ reqAttempts[c] = 0
            /\ restartPc[c] = "first" => reqGenCalls[c] = 0 /\ reqAttempts[c] = 1
            /\ restartPc[c] = "generating" =>
                reqGenCalls[c] = 1 /\ reqAttempts[c] = 1 /\ e1[c] \in Errors
            /\ restartPc[c] = "retry" =>
                reqGenCalls[c] = 1 /\ reqAttempts[c] = 2 /\ e1[c] \in Errors
            /\ restartPc[c] = "done" =>
                \/ /\ restartResult[c] = Ok(0)
                   /\ e1[c] = 0 /\ reqGenCalls[c] = 0 /\ reqAttempts[c] = 1
                \/ /\ restartResult[c] = Ok(0)
                   /\ e1[c] \in Errors /\ reqGenCalls[c] = 1 /\ reqAttempts[c] = 2
                \/ /\ restartResult[c].tag = "ServiceError"
                   /\ e1[c] \in Errors /\ reqGenCalls[c] = 1 /\ reqAttempts[c] = 2
                \/ /\ restartResult[c].tag = "RestartingFailed"
                   /\ e1[c] \in Errors /\ reqGenCalls[c] = 1 /\ reqAttempts[c] = 1)
    /\ [][\A c \in RestartCallers :
            C12_SecondAttemptReturns(c) =>
                /\ restartResult'[c].tag \in {"Ok", "ServiceError"}
                /\ reqGenCalls'[c] = 1
                /\ genCounter' = genCounter
                /\ genMsg' = genMsg]_vars
C12_Witness ==
    \E c \in RestartCallers :
        /\ restartPc[c] = "done"
        /\ restartResult[c].tag = "ServiceError"
        /\ reqGenCalls[c] = 1
        /\ reqAttempts[c] = 2
        /\ genCounter = 2

\* The step in which caller c's request returns from the generator invocation.
C13_GeneratorFailed(c) == restartPc[c] = "generating" /\ restartPc'[c] = "done"
\* C13: when the first attempt fails with e1 and the generator then fails
\* with e2, the request returns RestartingFailed(e2, e1) with e1 in the
\* second place, the stored instance is still the old one, and the inner
\* service is not called a second time.
C13_RestartingFailed ==
    /\ [][\A c \in RestartCallers :
            C13_GeneratorFailed(c) =>
                /\ restartResult'[c].tag = "RestartingFailed"
                /\ restartResult'[c].a \in Errors
                /\ restartResult'[c].b = e1[c]
                /\ e1[c] \in Errors
                /\ service' = service
                /\ genCounter' = genCounter
                /\ reqAttempts'[c] = 1
                /\ lockHolder = c /\ lockHolder' = 0]_vars
    /\ [](\A c \in RestartCallers :
            (restartPc[c] = "done" /\ restartResult[c].tag = "RestartingFailed") =>
                /\ restartResult[c].b = e1[c]
                /\ reqAttempts[c] = 1)
C13_Witness ==
    \E c \in RestartCallers :
        /\ restartPc[c] = "done"
        /\ restartResult[c] = RestartingFailed(2, 1)
        /\ e1[c] = 1
        /\ reqAttempts[c] = 1
        /\ service = Instance(1, 2)

\* The step in which the generator answers caller c's request with an instance.
C14_Regenerated(c) == restartPc[c] = "generating" /\ restartPc'[c] = "retry"
\* C14: when the first attempt fails and the generator succeeds, the stored
\* instance is replaced by the new instance before the second attempt, the
\* second attempt runs on the new instance (the newest the generator made)
\* while the caller holds the lock, and the new instance stays in place when
\* the request returns, with Ok or, for a failed second attempt,
\* ServiceError(e).
C14_RetryOnNewInstance ==
    /\ [][\A c \in RestartCallers :
            C14_Regenerated(c) =>
                /\ service' = Instance(genCounter + 1, g_r)
                /\ service'.id = service.id + 1
                /\ genCounter' = genCounter + 1
                /\ lockHolder = c /\ lockHolder' = c]_vars
    /\ [](\A c \in RestartCallers :
            restartPc[c] = "retry" =>
                /\ lockHolder = c
                /\ service = Instance(genCounter, g_r)
                /\ service.id >= 2)
    /\ [][\A c \in RestartCallers :
            C12_SecondAttemptReturns(c) =>
                /\ service' = service
                /\ \/ restartResult'[c] = Ok(0)
                   \/ /\ restartResult'[c].tag = "ServiceError"
                      /\ restartResult'[c].a \in Errors]_vars
C14_Witness ==
    /\ service = Instance(2, 2)
    /\ lockHolder = 0
    /\ \E c \in RestartCallers :
        /\ restartPc[c] = "done"
        /\ reqAttempts[c] = 2
        /\ restartResult[c] = ServiceError(2)
        /\ e1[c] = 1

\* C15: at most one request at a time is inside the sequence first
\* attempt, generator invocation, replacement, second attempt, and it is the
\* lock holder's; while a caller is inside it, no other caller enters it,
\* calls the instance, invokes the generator or returns, and the stored
\* instance and the generator change only in a step of the lock holder.
C15_Serialized ==
    /\ [](/\ Cardinality(InSequence) <= 1
          /\ lockHolder = 0 <=> InSequence = {}
          /\ lockHolder # 0 => InSequence = {lockHolder})
    /\ [][\A c \in RestartCallers : \A d \in RestartCallers \ {c} :
            lockHolder = c =>
                /\ restartPc'[d] \notin {"first", "generating", "retry"}
                /\ restartPc'[d] = "done" =>
                    restartPc[d] = "done" /\ restartResult'[d] = restartResult[d]
                /\ reqAttempts'[d] \in {reqAttempts[d], 0}
                /\ reqGenCalls'[d] \in {reqGenCalls[d], 0}]_vars
    /\ [][(restartState = "ready"
           /\ (service' # service \/ genCounter' # genCounter \/ genMsg' # genMsg))
          => /\ lockHolder # 0
             /\ restartPc'[lockHolder] # restartPc[lockHolder]]_vars
C15_Witness ==
    \E c, d \in RestartCallers :
        /\ c # d
        /\ lockHolder = c
        /\ restartPc[c] = "generating"
        /\ restartPc[d] = "waiting"
        /\ lockQueue = <<d>>

\* The step in which caller c's request future is dropped at a suspension
\* point.
C16_Abandons(c) ==
    /\ restartPc[c] \in {"waiting", "first", "generating", "retry"}
    /\ restartPc'[c] = "abandoned"

\* C16: a caller that abandons its Restart request while waiting for the
\* lock, during the first attempt, during the generator invocation or during
\* the retry neither holds the lock nor waits for it afterwards; the lock is
\* only ever held by a caller whose request is still running, and when it is
\* free the first waiting caller can acquire it.
C16_AbandonReleasesLock ==
    /\ [][\A c \in RestartCallers :
            C16_Abandons(c) =>
                /\ lockHolder' # c
                /\ \A i \in 1..Len(lockQueue') : lockQueue'[i] # c
                /\ lockHolder = c => lockHolder' = 0]_vars
    /\ [](/\ lockHolder # 0 => lockHolder \in InSequence
          /\ \A i \in 1..Len(lockQueue) : restartPc[lockQueue[i]] = "waiting"
          /\ \A c \in RestartCallers :
                restartPc[c] = "waiting" => \E i \in 1..Len(lockQueue) : lockQueue[i] = c
          /\ (lockHolder = 0 /\ lockQueue # <<>>) =>
                restartPc[Head(lockQueue)] = "waiting")
C16_Witness ==
    \E c, d \in RestartCallers :
        /\ c # d
        /\ restartPc[c] = "abandoned"
        /\ reqAttempts[c] = 2
        /\ lockHolder = d
        /\ restartPc[d] = "first"

\* The step in which the generator invoked by caller c's request answers
\* Ok, after the first attempt of that request failed.
C19_GeneratorSucceeded(c) ==
    /\ lockHolder = c
    /\ restartPc[c] = "generating"
    /\ restartPc'[c] = "retry"
    /\ e1[c] \in Errors
    /\ reqAttempts[c] = 1
    /\ genCounter' = genCounter + 1

\* C19: once Restart is constructed, the stored instance changes exactly in
\* the steps in which the generator invoked by a request whose first attempt
\* failed answers Ok (so replacements and successful generator invocations
\* by requests are equal in number), the instance's identifier never
\* decreases, and it is the number of the generator's latest product.
C19_ReplacementsAreGenerations ==
    /\ [][restartState = "ready" =>
            /\ (service' # service) <=> (\E c \in RestartCallers : C19_GeneratorSucceeded(c))
            /\ (service' # service) <=> (genCounter' # genCounter)
            /\ service'.id >= service.id
            /\ service' # service => service'.id = service.id + 1]_vars
    /\ [](restartState = "ready" => service.id = genCounter)
C19_Witness ==
    /\ restartState = "ready"
    /\ service.id = 3
    /\ genCounter = 3
    /\ \A c \in RestartCallers : restartPc[c] \in {"idle", "done", "waiting"}

\* C20: when no caller abandons, every inner call and generator invocation
\* returns and scheduling is fair, every request waiting for the lock
\* eventually returns an outcome, having held the lock and called the
\* instance, whichever other callers contend for the lock.
C20_EveryRequestReturns ==
    \A c \in RestartCallers :
        (restartPc[c] = "waiting") ~>
            (restartPc[c] = "done" /\ restartResult[c] # NoResult /\ reqAttempts[c] >= 1)
C20_Witness ==
    \E c, d \in RestartCallers :
        /\ c # d
        /\ restartPc[c] = "done"
        /\ restartResult[c] # NoResult
        /\ restartPc[d] = "done"
        /\ restartResult[d] # NoResult
        /\ genCounter > 1

\* The step in which caller c's request makes an inner invocation.
C17_Attempts(c) == attempts'[c] # attempts[c] /\ attempts'[c] # <<>>

\* C17: concurrent requests on one Retry instance have separate budgets:
\* the retries left to a running request are RETRY_COUNT minus its own
\* failed attempts, whatever the other requests did, a step of one request
\* changes neither the budget nor the attempts of another, no request makes
\* more than RETRY_COUNT + 1 attempts and one that returns an error made
\* exactly that many; a request makes an attempt only when its previous
\* attempt has failed (or it has made none), one attempt at a time.
C17_SeparateBudgets ==
    /\ [](\A c \in RetryCallers :
            /\ Len(attempts[c]) <= RETRY_COUNT + 1
            /\ retryPc[c] \in {"attempt", "sleep"} =>
                    retries_left[c] = RETRY_COUNT - Len(attempts[c])
            /\ (retryPc[c] = "done" /\ retryResult[c].tag = "Err") =>
                    Len(attempts[c]) = RETRY_COUNT + 1
            /\ \A i \in 1..Len(attempts[c]) :
                    attempts[c][i].tag = "Ok" => i = Len(attempts[c]))
    /\ [][\A c \in RetryCallers : \A d \in RetryCallers \ {c} :
            (retryPc'[d] # retryPc[d] \/ attempts'[d] # attempts[d]) =>
                /\ retries_left'[c] = retries_left[c]
                /\ attempts'[c] = attempts[c]
                /\ retryPc'[c] = retryPc[c]]_vars
    /\ [][\A c \in RetryCallers :
            C17_Attempts(c) =>
                /\ retryPc[c] = "attempt"
                /\ attempts[c] = <<>> \/ attempts[c][Len(attempts[c])].tag = "Err"
                /\ Len(attempts'[c]) = Len(attempts[c]) + 1]_vars
C17_Witness ==
    \E c, d \in RetryCallers :
        /\ c # d
        /\ RETRY_COUNT = 1
        /\ retryPc[c] = "done"
        /\ attempts[c] = <<Err(2), Err(1)>>
        /\ retryResult[c] = Err(1)
        /\ retryPc[d] = "done"
        /\ attempts[d] = <<Err(1), Ok(0)>>

\* The step in which caller c's request completes a delay.
C18_Slept(c) == sleeps'[c] = sleeps[c] + 1

\* C18: with the delay configured, a request sleeps once between two
\* consecutive attempts and at no other time: when it is about to make its
\* m-th attempt it has slept m - 1 times, it sleeps only after a failed
\* attempt that is not its last, a delay is followed by the next attempt,
\* and a request that has returned after m attempts has slept m - 1 times;
\* every inner invocation receives a message equal to the request's message.
C18_DelayBetweenAttempts ==
    /\ [](\A c \in RetryCallers :
            /\ retry_wait =>
                /\ retryPc[c] = "attempt" => sleeps[c] = Len(attempts[c])
                /\ retryPc[c] = "sleep" =>
                    /\ Len(attempts[c]) >= 1
                    /\ Len(attempts[c]) <= RETRY_COUNT
                    /\ attempts[c][Len(attempts[c])].tag = "Err"
                    /\ sleeps[c] = Len(attempts[c]) - 1
                /\ retryPc[c] = "done" => sleeps[c] = Len(attempts[c]) - 1
            /\ attempts[c] # <<>> => lastSent[c] = retryMsg[c])
    /\ [][\A c \in RetryCallers :
            /\ C18_Slept(c) =>
                /\ retry_wait
                /\ retryPc[c] = "sleep"
                /\ retryPc'[c] = "attempt"
            /\ C17_Attempts(c) => lastSent'[c] = retryMsg[c]]_vars
C18_Witness ==
    \E c \in RetryCallers :
        /\ retry_wait
        /\ retryPc[c] = "done"
        /\ Len(attempts[c]) = 2
        /\ attempts[c][2] = Ok(0)
        /\ sleeps[c] = 1
        /\ retryMsg[c] = 2
        /\ lastSent[c] = 2

====
